---------------------------- MODULE Spec2Model ----------------------------
(***************************************************************************)
(* A model of poemhunter.py: the Crawl Coordinator (PoemHunter.run with    *)
(* its download_poem worker tasks) and the Collection Coordinator          *)
(* (parse_top_poets with its parse_poet worker tasks).                     *)
(*                                                                         *)
(* Text is modelled as a sequence of tokens: a token is one whitespace     *)
(* character or one chunk of non-whitespace characters.  A line is a text, *)
(* a document is a sequence of lines.  Python's None is the value None     *)
(* below, which is no text a page can hold.                                *)
(***************************************************************************)
EXTENDS Naturals, Sequences, FiniteSets

\* ------------------------------------------------------------- bounds
\* Listing pages the remote catalog has at most (the last one has no next link).
MaxPages == 2
\* Tasks one run dispatches at most (the catalog is finite).
MaxTasks == 2
\* Authors the top-poets listing has at most.
MaxAuthors == 3
\* args.number is drawn from 1..MaxNumber.
MaxNumber == 2
\* <br> markers a poem block has at most.
MaxBreaks == 2

\* ------------------------------------------------------------- constants
\* The size of a run's worker pool (args.concurrency's default).
DEFAULT_CONCURRENCY == 30
\* parse_top_poets' pool has min(args.number, 10) workers.
MaxAuthorConcurrency == 10

\* ------------------------------------------------------------- values
Titles == {"Rain", "Dusk"}
Poet == "Poe"
Poets == {"Poe", "Hugo"}
Whitespace == {" ", "\r", "\n"}
None == <<"None">>

\* ------------------------------------------------------------- str
RECURSIVE lstrip(_)
lstrip(s) ==
    IF s = <<>> THEN <<>>
    ELSE IF Head(s) \in Whitespace THEN lstrip(Tail(s)) ELSE s

RECURSIVE rstrip(_)
rstrip(s) ==
    IF s = <<>> THEN <<>>
    ELSE IF s[Len(s)] \in Whitespace THEN rstrip(SubSeq(s, 1, Len(s) - 1)) ELSE s

strip(s) == rstrip(lstrip(s))

\* ------------------------------------------------------------- remote
\* What requests.get answers for an item URL: it raises IOError ("ioerr"),
\* or returns empty content ("empty"), or content without the poem block
\* ("noblock"), or content whose block <p> has a text (None when the block
\* starts with a <br>) and one tail per <br> (None when nothing follows it).
ItemResponses ==
    { [kind |-> "ioerr",   text |-> None, tails |-> <<>>],
      [kind |-> "empty",   text |-> None, tails |-> <<>>],
      [kind |-> "noblock", text |-> None, tails |-> <<>>],
      [kind |-> "block",   text |-> <<" ", "a", " ">>, tails |-> << <<"b", " ">>, None >>],
      [kind |-> "block",   text |-> None, tails |-> << <<"a">> >>] }

\* The item lists a listing page can hold.
ItemLists ==
    UNION { [1..n -> Titles] : n \in 0..MaxTasks }

\* What requests.get answers for a listing page.
PageResponses ==
    { [kind |-> "ioerr", items |-> <<>>, next |-> FALSE],
      [kind |-> "empty", items |-> <<>>, next |-> FALSE] }
    \cup { [kind |-> "ok", items |-> it, next |-> nx] :
             it \in ItemLists, nx \in BOOLEAN }


\* ------------------------------------------------------------- parsing
\* PoemHunter._fetch_poem after requests.get returned: the lines of the poem.
\* Empty content gives "" and an absent block gives []: both are the empty
\* sequence here (both are falsy and hold no line).
fetch_poem(resp) ==
    IF resp.kind = "block"
    THEN <<resp.text>> \o
         [i \in 1..Len(resp.tails) |->
             IF resp.tails[i] # None /\ resp.tails[i] # <<>>
             THEN resp.tails[i] ELSE <<>>]
    ELSE <<>>

\* PoemHunter._format_poem raises AttributeError when lines[0] is None
\* (None has no lstrip).
format_raises(lines) == lines # <<>> /\ lines[1] = None

\* Mutant of format_poem: one blank line, not two, follows the title.
format_poem_OneBlank(title, lines) ==
    IF lines = <<>> THEN lines
    ELSE LET l1 == [lines EXCEPT ![1] = lstrip(@)]
             l2 == [l1 EXCEPT ![Len(l1)] = strip(@)]
             l3 == IF l2[Len(l2)] = <<>>
                   THEN LET d == SubSeq(l2, 1, Len(l2) - 1)
                        IN IF d # <<>> THEN [d EXCEPT ![Len(d)] = strip(@)] ELSE d
                   ELSE l2
         IN << <<title>>, <<>> >> \o l3 \o << <<>>, <<>>, <<Poet>> >>

\* Mutant of format_poem: only trailing whitespace is stripped from the
\* last line.
format_poem_RstripLast(title, lines) ==
    IF lines = <<>> THEN lines
    ELSE LET l1 == [lines EXCEPT ![1] = lstrip(@)]
             l2 == [l1 EXCEPT ![Len(l1)] = rstrip(@)]
             l3 == IF l2[Len(l2)] = <<>>
                   THEN LET d == SubSeq(l2, 1, Len(l2) - 1)
                        IN IF d # <<>> THEN [d EXCEPT ![Len(d)] = rstrip(@)] ELSE d
                   ELSE l2
         IN << <<title>>, <<>>, <<>> >> \o l3 \o << <<>>, <<>>, <<Poet>> >>

\* Mutant of format_poem: the header and the footer are inserted whether or
\* not there is a line.
format_poem_AlwaysWrap(title, lines) ==
    LET l3 == IF lines = <<>> THEN lines
              ELSE LET l1 == [lines EXCEPT ![1] = lstrip(@)]
                       l2 == [l1 EXCEPT ![Len(l1)] = strip(@)]
                   IN IF l2[Len(l2)] = <<>>
                      THEN LET d == SubSeq(l2, 1, Len(l2) - 1)
                           IN IF d # <<>> THEN [d EXCEPT ![Len(d)] = strip(@)] ELSE d
                      ELSE l2
    IN << <<title>>, <<>>, <<>> >> \o l3 \o << <<>>, <<>>, <<Poet>> >>

\* PoemHunter._format_poem when it does not raise.
format_poem(title, lines) ==
    IF lines = <<>> THEN lines
    ELSE LET l1 == [lines EXCEPT ![1] = lstrip(@)]
             l2 == [l1 EXCEPT ![Len(l1)] = strip(@)]
             l3 == IF l2[Len(l2)] = <<>>
                   THEN LET d == SubSeq(l2, 1, Len(l2) - 1)
                        IN IF d # <<>> THEN [d EXCEPT ![Len(d)] = strip(@)] ELSE d
                   ELSE l2
         IN << <<title>>, <<>>, <<>> >> \o l3 \o << <<>>, <<>>, <<Poet>> >>

\* ------------------------------------------------------------- state
VARIABLES
    verbose,           \* self._verbose
    pc,                \* where run is: paginating, submitting, draining, done, raised
    page_no,           \* run's page_no
    todo,              \* the poem_titles of the current page not yet submitted
    fetched,           \* the listing pages requested so far, in order (history)
    tasks,             \* futures: the submitted download_poem calls, in order
    drained,           \* the futures as_completed has yielded to run
    downloaded_poems,  \* self.downloaded_poems
    files,             \* the destination directory: title -> lines written
    writes,            \* title -> how many times its file was written (history)
    out,               \* standard output: how often each line was printed
    number,            \* args.number
    tpc,               \* where parse_top_poets is
    tpage_no,          \* parse_top_poets' page_no
    ttodo,             \* the poets of the current page not yet submitted
    tfetched,          \* the top-poets pages requested so far (history)
    n_poets,           \* parse_top_poets' n_poets
    crawls,            \* parse_top_poets' futures: the submitted parse_poet calls
    tdrained,          \* the futures as_completed has yielded to parse_top_poets
    tout,              \* parse_top_poets' prints: poet -> how often
    dpc,               \* where one document is: fetched, parsed, formatted,
                       \* saved, savefailed, raised
    dtitle,            \* the document's title
    block,             \* what requests.get answered for the document's URL
    raw,               \* what _fetch_poem returned
    doc                \* what _format_poem returned

crawl_vars == <<verbose, pc, page_no, todo, fetched, tasks, drained,
                downloaded_poems, files, writes, out>>
top_vars == <<number, tpc, tpage_no, ttodo, tfetched, n_poets, crawls, tdrained, tout>>
doc_vars == <<dpc, dtitle, block, raw, doc>>
vars == <<crawl_vars, top_vars, doc_vars>>

NoFile == << <<"NoFile">> >>

Last(s) == s[Len(s)]

\* print(...) under "if self._verbose".
Messages ==
    { <<"Error loading page", "">> } \cup
    ({"saved", "Could not download", "Could not save"} \X Titles)

Print_(msg) == out' = IF verbose THEN [out EXCEPT ![msg] = @ + 1] ELSE out

\* The mode that is not running stays idle.
TopIdle ==
    /\ number = 0 /\ tpc = "idle" /\ tpage_no = 0 /\ ttodo = <<>>
    /\ tfetched = <<>> /\ n_poets = 0 /\ crawls = <<>> /\ tdrained = {}
    /\ tout = [p \in Poets |-> 0]

\* No single document is followed in the coordinators' models.
DocIdle ==
    /\ dpc = "idle" /\ dtitle = "" /\ block = [kind |-> "empty", text |-> None, tails |-> <<>>]
    /\ raw = <<>> /\ doc = <<>>

\* PoemHunter.__init__ and the first lines of run.
Init ==
    /\ verbose \in BOOLEAN
    /\ pc = "paginating"
    /\ page_no = 1
    /\ todo = <<>>
    /\ fetched = <<>>
    /\ tasks = <<>>
    /\ drained = {}
    /\ downloaded_poems = <<>>
    /\ files = [t \in Titles |-> NoFile]
    /\ writes = [t \in Titles |-> 0]
    /\ out = [m \in Messages |-> 0]
    /\ TopIdle
    /\ DocIdle

\* ------------------------------------------------------------- run
\* run, lines 49-58: request listing page page_no.
FetchPage ==
    /\ pc = "paginating"
    /\ page_no <= MaxPages
    /\ \E r \in PageResponses :
        /\ page_no = MaxPages => ~r.next
        /\ Len(tasks) + Len(r.items) <= MaxTasks
        /\ fetched' = Append(fetched, [no |-> page_no, kind |-> r.kind,
                                       items |-> r.items, next |-> r.next])
        /\ IF r.kind = "ioerr"
           THEN /\ Print_(<<"Error loading page", "">>)
                /\ pc' = "draining"
                /\ todo' = todo
           ELSE IF r.kind = "empty"
           THEN /\ pc' = "draining"
                /\ UNCHANGED <<todo, out>>
           ELSE /\ pc' = "submitting"
                /\ todo' = r.items
                /\ out' = out
    /\ UNCHANGED <<verbose, page_no, tasks, drained, downloaded_poems, files, writes>>
    /\ UNCHANGED <<top_vars, doc_vars>>

NewTask(title) ==
    [title |-> title, page |-> page_no, st |-> "queued", fetch |-> "none",
     poem |-> <<>>, save |-> "none", result |-> "none"]

\* Mutant of Submit: a title already dispatched in this run is skipped.
Submit_Dedupe ==
    /\ pc = "submitting"
    /\ todo # <<>>
    /\ tasks' = IF \E i \in DOMAIN tasks : tasks[i].title = Head(todo)
                THEN tasks
                ELSE Append(tasks, NewTask(Head(todo)))
    /\ todo' = Tail(todo)
    /\ UNCHANGED <<verbose, pc, page_no, fetched, drained, downloaded_poems,
                   files, writes, out>>
    /\ UNCHANGED <<top_vars, doc_vars>>

\* run, lines 61-66: submit download_poem for the next title of the page.
Submit ==
    /\ pc = "submitting"
    /\ todo # <<>>
    /\ tasks' = Append(tasks, NewTask(Head(todo)))
    /\ todo' = Tail(todo)
    /\ UNCHANGED <<verbose, pc, page_no, fetched, drained, downloaded_poems,
                   files, writes, out>>
    /\ UNCHANGED <<top_vars, doc_vars>>

\* Mutant of EndPage: a page without a next link does not end the loop.
EndPage_NoBreak ==
    /\ pc = "submitting"
    /\ todo = <<>>
    /\ pc' = "paginating" /\ page_no' = page_no + 1
    /\ UNCHANGED <<verbose, todo, fetched, tasks, drained, downloaded_poems,
                   files, writes, out>>
    /\ UNCHANGED <<top_vars, doc_vars>>

\* Mutant of EndPage: the next page is requested while titles of this page
\* are still to be submitted.
EndPage_Early ==
    /\ pc = "submitting"
    /\ IF ~Last(fetched).next
       THEN pc' = "draining" /\ page_no' = page_no
       ELSE pc' = "paginating" /\ page_no' = page_no + 1
    /\ todo' = <<>>
    /\ UNCHANGED <<verbose, fetched, tasks, drained, downloaded_poems,
                   files, writes, out>>
    /\ UNCHANGED <<top_vars, doc_vars>>

\* run, lines 68-71: the page's titles are all submitted.
EndPage ==
    /\ pc = "submitting"
    /\ todo = <<>>
    /\ IF ~Last(fetched).next
       THEN pc' = "draining" /\ page_no' = page_no
       ELSE pc' = "paginating" /\ page_no' = page_no + 1
    /\ UNCHANGED <<verbose, todo, fetched, tasks, drained, downloaded_poems,
                   files, writes, out>>
    /\ UNCHANGED <<top_vars, doc_vars>>

\* Mutant of Completed: the drain loop takes a future whether it is done or not.
Completed_NoWait(i) == i \in DOMAIN tasks

\* A future is done: its call returned or raised.
Completed(i) == tasks[i].st = "done"

\* run, lines 73-77: as_completed yields a completed future; result() raises
\* what the call raised.
DrainOne(i) ==
    /\ pc = "draining"
    /\ i \notin drained
    /\ Completed(i)
    /\ drained' = drained \cup {i}
    /\ IF tasks[i].result = "raised"
       THEN pc' = "raised" /\ out' = out
       ELSE /\ pc' = pc
            /\ IF tasks[i].result = "true"
               THEN Print_(<<"saved", tasks[i].title>>)
               ELSE out' = out
    /\ UNCHANGED <<verbose, page_no, todo, fetched, tasks, downloaded_poems,
                   files, writes>>
    /\ UNCHANGED <<top_vars, doc_vars>>

\* run, line 73: as_completed has yielded every future; run returns.
Return ==
    /\ pc = "draining"
    /\ drained = DOMAIN tasks
    /\ pc' = "done"
    /\ UNCHANGED <<verbose, page_no, todo, fetched, tasks, drained,
                   downloaded_poems, files, writes, out>>
    /\ UNCHANGED <<top_vars, doc_vars>>

\* ------------------------------------------------------------- download_poem
Running == {i \in DOMAIN tasks : tasks[i].st \in {"fetching", "saving", "recording"}}

\* ThreadPoolExecutor: a free worker takes the oldest queued call.
CanStart(i) ==
    /\ tasks[i].st = "queued"
    /\ \A j \in 1..(i - 1) : tasks[j].st # "queued"
    /\ Cardinality(Running) < DEFAULT_CONCURRENCY

\* download_poem, lines 85-86: the dedupe check.
AlreadyDownloaded(title) == \E k \in DOMAIN downloaded_poems : downloaded_poems[k] = title

TaskCheck(i) ==
    /\ CanStart(i)
    /\ tasks' = [tasks EXCEPT ![i] =
                    IF AlreadyDownloaded(tasks[i].title)
                    THEN [@ EXCEPT !.st = "done", !.result = "false"]
                    ELSE [@ EXCEPT !.st = "fetching"]]
    /\ UNCHANGED <<verbose, pc, page_no, todo, fetched, drained, downloaded_poems,
                   files, writes, out>>
    /\ UNCHANGED <<top_vars, doc_vars>>

\* Mutant of TaskFetch: a fetch that raised IOError is tried again.
TaskFetch_Retry(i) ==
    /\ tasks[i].st = "fetching"
    /\ \E r \in ItemResponses :
        IF r.kind = "ioerr"
        THEN /\ tasks' = [tasks EXCEPT ![i] = [@ EXCEPT !.fetch = "ioerr"]]
             /\ Print_(<<"Could not download", tasks[i].title>>)
        ELSE /\ tasks' = [tasks EXCEPT ![i] =
                    [@ EXCEPT !.st = "saving", !.fetch = "ok", !.poem = fetch_poem(r)]]
             /\ out' = out
    /\ UNCHANGED <<verbose, pc, page_no, todo, fetched, drained, downloaded_poems,
                   files, writes>>
    /\ UNCHANGED <<top_vars, doc_vars>>

\* download_poem, lines 88-93: _fetch_poem.
TaskFetch(i) ==
    /\ tasks[i].st = "fetching"
    /\ \E r \in ItemResponses :
        IF r.kind = "ioerr"
        THEN /\ tasks' = [tasks EXCEPT ![i] =
                    [@ EXCEPT !.st = "done", !.fetch = "ioerr", !.result = "false"]]
             /\ Print_(<<"Could not download", tasks[i].title>>)
        ELSE /\ tasks' = [tasks EXCEPT ![i] =
                    [@ EXCEPT !.st = "saving", !.fetch = "ok", !.poem = fetch_poem(r)]]
             /\ out' = out
    /\ UNCHANGED <<verbose, pc, page_no, todo, fetched, drained, downloaded_poems,
                   files, writes>>
    /\ UNCHANGED <<top_vars, doc_vars>>

\* Mutant of TaskSave: after a save that raised IOError the task goes on to
\* record the title.
TaskSave_RecordOnError(i) ==
    /\ tasks[i].st = "saving"
    /\ IF format_raises(tasks[i].poem)
       THEN /\ tasks' = [tasks EXCEPT ![i] =
                    [@ EXCEPT !.st = "done", !.save = "raised", !.result = "raised"]]
            /\ UNCHANGED <<files, writes, out>>
       ELSE \/ /\ tasks' = [tasks EXCEPT ![i] =
                    [@ EXCEPT !.st = "recording", !.save = "ioerr"]]
               /\ Print_(<<"Could not save", tasks[i].title>>)
               /\ UNCHANGED <<files, writes>>
            \/ /\ tasks' = [tasks EXCEPT ![i] =
                    [@ EXCEPT !.st = "recording", !.save = "ok"]]
               /\ files' = [files EXCEPT ![tasks[i].title] =
                               format_poem(tasks[i].title, tasks[i].poem)]
               /\ writes' = [writes EXCEPT ![tasks[i].title] = @ + 1]
               /\ out' = out
    /\ UNCHANGED <<verbose, pc, page_no, todo, fetched, drained, downloaded_poems>>
    /\ UNCHANGED <<top_vars, doc_vars>>

\* download_poem, lines 95-101: _format_poem and _save_poem.  open or write
\* raises IOError, or the file holds the formatted lines.
TaskSave(i) ==
    /\ tasks[i].st = "saving"
    /\ IF format_raises(tasks[i].poem)
       THEN /\ tasks' = [tasks EXCEPT ![i] =
                    [@ EXCEPT !.st = "done", !.save = "raised", !.result = "raised"]]
            /\ UNCHANGED <<files, writes, out>>
       ELSE \/ /\ tasks' = [tasks EXCEPT ![i] =
                    [@ EXCEPT !.st = "done", !.save = "ioerr", !.result = "false"]]
               /\ Print_(<<"Could not save", tasks[i].title>>)
               /\ UNCHANGED <<files, writes>>
            \/ /\ tasks' = [tasks EXCEPT ![i] =
                    [@ EXCEPT !.st = "recording", !.save = "ok"]]
               /\ files' = [files EXCEPT ![tasks[i].title] =
                               format_poem(tasks[i].title, tasks[i].poem)]
               /\ writes' = [writes EXCEPT ![tasks[i].title] = @ + 1]
               /\ out' = out
    /\ UNCHANGED <<verbose, pc, page_no, todo, fetched, drained, downloaded_poems>>
    /\ UNCHANGED <<top_vars, doc_vars>>

\* download_poem, lines 103-104.
TaskRecord(i) ==
    /\ tasks[i].st = "recording"
    /\ downloaded_poems' = Append(downloaded_poems, tasks[i].title)
    /\ tasks' = [tasks EXCEPT ![i] = [@ EXCEPT !.st = "done", !.result = "true"]]
    /\ UNCHANGED <<verbose, pc, page_no, todo, fetched, drained, files, writes, out>>
    /\ UNCHANGED <<top_vars, doc_vars>>

Next ==
    \/ FetchPage
    \/ Submit
    \/ EndPage
    \/ \E i \in DOMAIN tasks : DrainOne(i)
    \/ Return
    \/ \E i \in DOMAIN tasks : TaskCheck(i)
    \/ \E i \in DOMAIN tasks : TaskFetch(i)
    \/ \E i \in DOMAIN tasks : TaskSave(i)
    \/ \E i \in DOMAIN tasks : TaskRecord(i)

Spec == Init /\ [][Next]_vars

\* ------------------------------------------------------------- parse_top_poets
\* The poet lists a top-poets page can hold.
PoetLists ==
    UNION { [1..n -> Poets] : n \in 0..MaxAuthors }

\* What requests.get answers for a top-poets page.
TopPageResponses ==
    { [kind |-> "ioerr", poets |-> <<>>, next |-> FALSE],
      [kind |-> "empty", poets |-> <<>>, next |-> FALSE] }
    \cup { [kind |-> "ok", poets |-> ps, next |-> nx] :
             ps \in PoetLists, nx \in BOOLEAN }

\* The poets of the pages requested so far, in listing order.
RECURSIVE Encountered(_)
Encountered(pages) ==
    IF pages = <<>> THEN <<>>
    ELSE Encountered(SubSeq(pages, 1, Len(pages) - 1)) \o Last(pages).poets

\* No PoemHunter runs in this mode's model: a crawl is one parse_poet call.
CrawlIdle ==
    /\ pc = "idle" /\ page_no = 0 /\ todo = <<>> /\ fetched = <<>>
    /\ tasks = <<>> /\ drained = {} /\ downloaded_poems = <<>>
    /\ files = [t \in Titles |-> NoFile]
    /\ writes = [t \in Titles |-> 0]
    /\ out = [m \in Messages |-> 0]

\* parse_top_poets, lines 164-168.
TopInit ==
    /\ verbose \in BOOLEAN
    /\ number \in 1..MaxNumber
    /\ tpc = "paginating"
    /\ tpage_no = 1
    /\ ttodo = <<>>
    /\ tfetched = <<>>
    /\ n_poets = 0
    /\ crawls = <<>>
    /\ tdrained = {}
    /\ tout = [p \in Poets |-> 0]
    /\ CrawlIdle
    /\ DocIdle

\* parse_top_poets, lines 170-175: request top-poets page tpage_no.  Nothing
\* catches what requests.get raises.
TopFetchPage ==
    /\ tpc = "paginating"
    /\ tpage_no <= MaxPages
    /\ \E r \in TopPageResponses :
        /\ tpage_no = MaxPages => ~r.next
        /\ Len(Encountered(tfetched)) + Len(r.poets) <= MaxAuthors
        /\ tfetched' = Append(tfetched, [no |-> tpage_no, kind |-> r.kind,
                                         poets |-> r.poets, next |-> r.next])
        /\ IF r.kind = "ioerr"
           THEN tpc' = "raised" /\ ttodo' = ttodo
           ELSE IF r.kind = "empty"
           THEN tpc' = "draining" /\ ttodo' = ttodo
           ELSE tpc' = "submitting" /\ ttodo' = r.poets
    /\ UNCHANGED <<number, tpage_no, n_poets, crawls, tdrained, tout>>
    /\ UNCHANGED <<crawl_vars, doc_vars>>

\* Mutant of Reached: the count is compared one too late.
Reached_OffByOne(n) == n = number + 1

\* parse_top_poets, lines 185-186: the requested number of poets is reached.
Reached(n) == n = number

\* parse_top_poets, lines 176-186: submit parse_poet for the next poet of the
\* page, and return when the requested number is reached.  (xpath yields
\* elements only, so the "poet is None" branch of line 177 is never taken.)
TopSubmit ==
    /\ tpc = "submitting"
    /\ ttodo # <<>>
    /\ crawls' = Append(crawls, [poet |-> Head(ttodo), page |-> tpage_no,
                                 st |-> "queued", result |-> "none",
                                 downloaded |-> <<>>, skipped |-> {}])
    /\ ttodo' = Tail(ttodo)
    /\ n_poets' = n_poets + 1
    /\ tpc' = IF Reached(n_poets + 1) THEN "returned" ELSE tpc
    /\ UNCHANGED <<number, tpage_no, tfetched, tdrained, tout>>
    /\ UNCHANGED <<crawl_vars, doc_vars>>

\* parse_top_poets, lines 188-191.
TopEndPage ==
    /\ tpc = "submitting"
    /\ ttodo = <<>>
    /\ IF ~Last(tfetched).next
       THEN tpc' = "draining" /\ tpage_no' = tpage_no
       ELSE tpc' = "paginating" /\ tpage_no' = tpage_no + 1
    /\ UNCHANGED <<number, ttodo, tfetched, n_poets, crawls, tdrained, tout>>
    /\ UNCHANGED <<crawl_vars, doc_vars>>

\* parse_top_poets, lines 193-196: as_completed yields a completed future;
\* its result is not read.
TopDrainOne(i) ==
    /\ tpc = "draining"
    /\ i \notin tdrained
    /\ crawls[i].st = "done"
    /\ tdrained' = tdrained \cup {i}
    /\ tout' = IF verbose THEN [tout EXCEPT ![crawls[i].poet] = @ + 1] ELSE tout
    /\ UNCHANGED <<number, tpc, tpage_no, ttodo, tfetched, n_poets, crawls>>
    /\ UNCHANGED <<crawl_vars, doc_vars>>

\* parse_top_poets, line 193: as_completed has yielded every future.
TopReturn ==
    /\ tpc = "draining"
    /\ tdrained = DOMAIN crawls
    /\ tpc' = "returned"
    /\ UNCHANGED <<number, tpage_no, ttodo, tfetched, n_poets, crawls, tdrained, tout>>
    /\ UNCHANGED <<crawl_vars, doc_vars>>

Min(a, b) == IF a < b THEN a ELSE b

\* The executor of parse_top_poets starts the oldest queued parse_poet call.
CrawlStart(i) ==
    /\ crawls[i].st = "queued"
    /\ \A j \in 1..(i - 1) : crawls[j].st # "queued"
    /\ Cardinality({j \in DOMAIN crawls : crawls[j].st = "running"})
          < Min(number, MaxAuthorConcurrency)
    /\ crawls' = [crawls EXCEPT ![i] = [@ EXCEPT !.st = "running", !.downloaded = <<>>]]
    /\ UNCHANGED <<number, tpc, tpage_no, ttodo, tfetched, n_poets, tdrained, tout>>
    /\ UNCHANGED <<crawl_vars, doc_vars>>

\* The titles the poets' listings hold in this mode's model.
TopTitles == {"Rain"}

\* Mutant of Downloaded: one list is shared by all PoemHunter instances.
Downloaded_Shared(i) ==
    UNION { {cr.downloaded[k] : k \in DOMAIN cr.downloaded} :
              cr \in {crawls[j] : j \in DOMAIN crawls} }

\* The titles in self.downloaded_poems of crawl i's PoemHunter: __init__
\* gives every instance a list of its own (line 31).
Downloaded(i) == {crawls[i].downloaded[k] : k \in DOMAIN crawls[i].downloaded}

\* One download_poem call of crawl i's PoemHunter that succeeds unless the
\* check of line 85 finds the title (the interleavings of the calls within
\* one crawl are those of Spec).  skipped keeps the titles line 85 found recorded.
CrawlDownload(i) ==
    /\ crawls[i].st = "running"
    /\ \E t \in TopTitles :
        crawls' = [crawls EXCEPT ![i] =
            IF t \in Downloaded(i)
            THEN [@ EXCEPT !.skipped = @ \cup {t}]
            ELSE [@ EXCEPT !.downloaded = Append(@, t)]]
    /\ UNCHANGED <<number, tpc, tpage_no, ttodo, tfetched, n_poets, tdrained, tout>>
    /\ UNCHANGED <<crawl_vars, doc_vars>>

\* parse_poet, lines 200-203: the poet's PoemHunter.run returns or raises.
CrawlFinish(i) ==
    /\ crawls[i].st = "running"
    /\ \E r \in {"returned", "raised"} :
        crawls' = [crawls EXCEPT ![i] = [@ EXCEPT !.st = "done", !.result = r]]
    /\ UNCHANGED <<number, tpc, tpage_no, ttodo, tfetched, n_poets, tdrained, tout>>
    /\ UNCHANGED <<crawl_vars, doc_vars>>

TopNext ==
    \/ TopFetchPage
    \/ TopSubmit
    \/ TopEndPage
    \/ \E i \in DOMAIN crawls : TopDrainOne(i)
    \/ TopReturn
    \/ \E i \in DOMAIN crawls : CrawlStart(i)
    \/ \E i \in DOMAIN crawls : CrawlDownload(i)
    \/ \E i \in DOMAIN crawls : CrawlFinish(i)

TopSpec == TopInit /\ [][TopNext]_vars


\* ------------------------------------------------------------- one document
\* The texts a block's parts are drawn from.
TextSamples == { <<"a">>, <<" ", "a">>, <<"a", " ">>, <<" ">> }

\* The poem blocks an item page can hold: the text before the first <br>
\* (None when there is none) and the tail of each <br> (None when nothing
\* follows it).
Blocks ==
    { [kind |-> "block", text |-> t, tails |-> tl] :
        t \in TextSamples \cup {None},
        tl \in UNION { [1..n -> TextSamples \cup {None}] : n \in 0..MaxBreaks } }

\* What requests.get answers for the document's URL when it does not raise.
DocResponses ==
    { [kind |-> "empty",   text |-> None, tails |-> <<>>],
      [kind |-> "noblock", text |-> None, tails |-> <<>>] } \cup Blocks

\* download_poem, line 89, after requests.get returned.
DocInit ==
    /\ dpc = "fetched"
    /\ dtitle \in Titles
    /\ block \in DocResponses
    /\ raw = <<>>
    /\ doc = <<>>
    /\ verbose = FALSE
    /\ CrawlIdle
    /\ TopIdle

\* _fetch_poem, lines 110-126.
DocParse ==
    /\ dpc = "fetched"
    /\ raw' = fetch_poem(block)
    /\ dpc' = "parsed"
    /\ UNCHANGED <<dtitle, block, doc>>
    /\ UNCHANGED <<crawl_vars, top_vars>>

\* _format_poem, lines 128-148.
DocFormat ==
    /\ dpc = "parsed"
    /\ IF format_raises(raw)
       THEN dpc' = "raised" /\ doc' = doc
       ELSE dpc' = "formatted" /\ doc' = format_poem(dtitle, raw)
    /\ UNCHANGED <<dtitle, block, raw>>
    /\ UNCHANGED <<crawl_vars, top_vars>>

\* _save_poem, lines 150-154: open or write raises IOError, or the file
\* holds the lines.
DocSave ==
    /\ dpc = "formatted"
    /\ \/ /\ dpc' = "savefailed"
          /\ UNCHANGED <<files, writes>>
       \/ /\ dpc' = "saved"
          /\ files' = [files EXCEPT ![dtitle] = doc]
          /\ writes' = [writes EXCEPT ![dtitle] = @ + 1]
    /\ UNCHANGED <<dtitle, block, raw, doc>>
    /\ UNCHANGED <<verbose, pc, page_no, todo, fetched, tasks, drained,
                   downloaded_poems, out>>
    /\ UNCHANGED top_vars

DocNext == DocParse \/ DocFormat \/ DocSave

DocSpec == DocInit /\ [][DocNext]_vars

\* ------------------------------------------------------------- properties
TitlesOf(ts) == [i \in DOMAIN ts |-> ts[i].title]
PoetsOf(cs) == [i \in DOMAIN cs |-> cs[i].poet]

\* The titles of the listing pages requested so far, in listing order.
RECURSIVE Listed(_)
Listed(pages) ==
    IF pages = <<>> THEN <<>>
    ELSE Listed(SubSeq(pages, 1, Len(pages) - 1)) \o Last(pages).items

TasksOf(t) == {i \in DOMAIN tasks : tasks[i].title = t}
OnTwoPages(t) == \E i, j \in TasksOf(t) : tasks[i].page # tasks[j].page
AllSucceeded ==
    /\ \A k \in DOMAIN fetched : fetched[k].kind = "ok"
    /\ \A i \in DOMAIN tasks :
        /\ tasks[i].fetch # "ioerr" /\ tasks[i].save \notin {"ioerr", "raised"}
        /\ tasks[i].fetch = "ok" => tasks[i].poem # <<>>

\* C1: when run has returned and every fetch and save succeeded, the file of
\* a title that is listed on two pages was written exactly once, exactly one
\* of its tasks resolved as saved and, in verbose mode, exactly one "saved"
\* line was printed for it.
C1_SavedExactlyOnce ==
    (pc = "done" /\ AllSucceeded) =>
        \A t \in Titles :
            OnTwoPages(t) =>
                /\ writes[t] = 1
                /\ Cardinality({i \in TasksOf(t) : tasks[i].result = "true"}) = 1
                /\ verbose => out[<<"saved", t>>] = 1

\* C2: run has returned only when every task it dispatched has resolved and
\* has been taken by the drain loop.
C2_ReturnsAfterAllResolved ==
    pc = "done" =>
        \A i \in DOMAIN tasks : tasks[i].st = "done" /\ i \in drained

\* C2's case: run returned after one task failed by its fetch and another by
\* its save.
C2_Witness ==
    /\ pc = "done"
    /\ \E i, j \in DOMAIN tasks :
        tasks[i].fetch = "ioerr" /\ tasks[j].save = "ioerr"

NoListingRaise == \A k \in DOMAIN fetched : fetched[k].kind # "ioerr"

\* C3: the listing pages are requested in the order 1, 2, 3, ...; a page is
\* requested only after the page before it came with a body and a next link;
\* and, when no listing fetch raised, pagination goes on after a page with a
\* body and a next link and is over only after a page with an empty body or
\* without a next link.
C3_PaginationOrder ==
    /\ \A k \in DOMAIN fetched : fetched[k].no = k
    /\ \A k \in DOMAIN fetched :
        k > 1 => fetched[k - 1].kind = "ok" /\ fetched[k - 1].next
    /\ pc = "paginating" =>
        /\ page_no = Len(fetched) + 1
        /\ fetched # <<>> => Last(fetched).kind = "ok" /\ Last(fetched).next
    /\ pc = "submitting" => page_no = Len(fetched) /\ Last(fetched).kind = "ok"
    /\ (pc \in {"draining", "done", "raised"} /\ NoListingRaise) =>
        /\ fetched # <<>>
        /\ Last(fetched).kind = "empty" \/ ~Last(fetched).next

\* C3's case: page 1 had a next link, page 2 came with an empty body, and
\* run returned.
C3_Witness ==
    /\ pc = "done"
    /\ Len(fetched) = 2
    /\ fetched[1].next
    /\ fetched[2].kind = "empty"

\* C4: once the fetch of an item has failed, that item's task resolves as not
\* saved, run does not end by raising, and when run has returned every other
\* item whose own fetch and save succeeded is saved.
C4_FetchFailureContained ==
    (\E i \in DOMAIN tasks : tasks[i].fetch = "ioerr") =>
        /\ \A i \in DOMAIN tasks : tasks[i].fetch = "ioerr" => tasks[i].result = "false"
        /\ pc # "raised"
        /\ pc = "done" =>
            \A j \in DOMAIN tasks :
                (tasks[j].fetch = "ok" /\ tasks[j].save = "ok") =>
                    tasks[j].result = "true" /\ files[tasks[j].title] # NoFile

\* C5: crawls are dispatched for the first authors of the listing, in listing
\* order, never more than args.number; when dispatching is over they are the
\* first args.number authors, or all of them if fewer were listed; and once
\* the args.number-th crawl is dispatched parse_top_poets has returned and no
\* page after that author's page was requested.
C5_FirstNAuthors ==
    /\ Len(crawls) <= number
    /\ PoetsOf(crawls) = SubSeq(Encountered(tfetched), 1, Len(crawls))
    /\ tpc \in {"draining", "returned", "raised"} =>
        Len(crawls) = Min(number, Len(Encountered(tfetched)))
    /\ (tpc # "idle" /\ Len(crawls) = number) =>
        /\ tpc = "returned"
        /\ Len(tfetched) = crawls[number].page

\* C5's case: two authors requested; the second is found on page 2, in the
\* middle of the page.
C5_Witness ==
    /\ number = 2
    /\ Len(crawls) = 2
    /\ crawls[1].page = 1
    /\ crawls[2].page = 2
    /\ ttodo # <<>>

\* C6: parse_top_poets has returned only when every author crawl it
\* dispatched has resolved.
C6_TopAwaitsAll ==
    tpc = "returned" => \A i \in DOMAIN crawls : crawls[i].st = "done"

\* C7: once the fetch of listing page N has failed, page N is the last page
\* requested, run is draining or has returned (it never ends by raising), and
\* when it has returned every dispatched task has resolved and been drained.
C7_ListingFailureContained ==
    \A k \in DOMAIN fetched :
        fetched[k].kind = "ioerr" =>
            /\ k = Len(fetched)
            /\ pc \in {"draining", "done"}
            /\ pc = "done" =>
                \A i \in DOMAIN tasks : tasks[i].st = "done" /\ i \in drained

\* C8: once the fetch of a top-poets page has failed, parse_top_poets is
\* draining or has returned (the failure does not propagate out of it), and
\* it has returned only when every dispatched crawl has resolved.
C8_TopFetchFailureContained ==
    \A k \in DOMAIN tfetched :
        tfetched[k].kind = "ioerr" =>
            /\ tpc \in {"draining", "returned"}
            /\ tpc = "returned" => \A i \in DOMAIN crawls : crawls[i].st = "done"

Failed(i) ==
    \/ tasks[i].fetch = "ioerr"
    \/ tasks[i].fetch = "ok" /\ tasks[i].poem = <<>>
    \/ tasks[i].save = "ioerr"

\* C10: a task whose fetch failed, whose document parsed to no line or whose
\* save failed resolves as not saved, without raising and without having
\* recorded its title.
C10_FailuresResolveNotSaved ==
    \A i \in DOMAIN tasks :
        (Failed(i) /\ tasks[i].st = "done") => tasks[i].result = "false"


\* A task that resolved as failed: its fetch or its save raised IOError.
FailedTask(i) ==
    /\ tasks[i].st = "done"
    /\ tasks[i].fetch = "ioerr" \/ tasks[i].save = "ioerr"

\* How many tasks have requested the page of title t.
FetchCount(t) == Cardinality({i \in TasksOf(t) : tasks[i].fetch # "none"})

Layout(d, title) ==
    /\ Len(d) >= 6
    /\ d[1] = <<title>>
    /\ d[2] = <<>> /\ d[3] = <<>>
    /\ d[Len(d) - 2] = <<>> /\ d[Len(d) - 1] = <<>>
    /\ d[Len(d)] = <<Poet>>

\* C12: when a document that parsed to at least one line has been saved,
\* its file starts with the title and two empty lines and ends with two
\* empty lines and the poet.
C12_SavedLayout ==
    (dpc = "saved" /\ raw # <<>>) => Layout(files[dtitle], dtitle)

\* C12's case: a document of three parsed lines has been saved with a body
\* of at least two lines.
C12_Witness ==
    /\ dpc = "saved"
    /\ Len(raw) = 3
    /\ Len(files[dtitle]) >= 8


Formatted == {"formatted", "saved", "savefailed"}

\* The body part of a formatted document.
Body(d) == SubSeq(d, 4, Len(d) - 3)

\* What is stripped from the last line: both sides, or the right side only.
LastTrim(both, s) == IF both THEN strip(s) ELSE rstrip(s)

\* Line i of a body of m lines.
ExpectedLine(both, i, m) ==
    LET l == IF i = 1 THEN lstrip(raw[1]) ELSE raw[i]
    IN IF i = m THEN LastTrim(both, l) ELSE l

\* The body the claim describes for raw: the last line is dropped when it is
\* empty after stripping.
ExpectedBody(both) ==
    LET n == Len(raw)
        m == IF ExpectedLine(both, n, n) = <<>> THEN n - 1 ELSE n
    IN [i \in 1..m |-> ExpectedLine(both, i, m)]

\* C13 as stated: the body of a formatted non-empty document is the input
\* with leading whitespace stripped from the first line and trailing
\* whitespace stripped from the last line (dropped when empty, the new last
\* line stripped of trailing whitespace).
C13_BodyAsStated ==
    (dpc \in Formatted /\ raw # <<>>) => Body(doc) = ExpectedBody(FALSE)

\* C13 as amended: the last line (and the new last line after a drop) is
\* stripped on both sides; _format_poem raises only when the first line is
\* None, and then always.
C13_BodyAmended ==
    /\ (dpc \in Formatted /\ raw # <<>>) => Body(doc) = ExpectedBody(TRUE)
    /\ dpc = "raised" => (raw # <<>> /\ raw[1] = None)
    /\ (dpc \in Formatted /\ raw # <<>>) => raw[1] # None

\* C13's case: a last line with leading whitespace has lost it.
C13_Witness ==
    /\ dpc = "formatted"
    /\ Len(raw) = 2
    /\ raw[2] = <<" ", "a">>
    /\ Body(doc)[2] = <<"a">>


\* C14: for a document that parsed to no line _format_poem does not raise
\* and returns no line: neither the title nor the poet is inserted.
C14_EmptyStaysEmpty ==
    (dpc \notin {"fetched", "parsed"} /\ raw = <<>>) =>
        dpc \in Formatted /\ doc = <<>>

\* C14's case: a page without the poem block has been formatted.
C14_Witness ==
    /\ dpc = "formatted"
    /\ block.kind = "noblock"
    /\ raw = <<>>


\* C16: a step of one running crawl leaves the downloaded_poems of every
\* other crawl unchanged, and a crawl's check finds only titles that are in
\* its own downloaded_poems: a title saved for one poet is not skipped for
\* another.
C16_OwnDownloadedSet ==
    /\ [](\A j \in DOMAIN crawls :
            crawls[j].skipped \subseteq
                {crawls[j].downloaded[k] : k \in DOMAIN crawls[j].downloaded})
    /\ [][\A i, j \in DOMAIN crawls :
            (i # j /\ crawls[i].st = "running" /\ crawls'[i] # crawls[i]) =>
                crawls'[j].downloaded = crawls[j].downloaded]_vars

\* C16's case: two poets' crawls have both saved the same title.
C16_Witness ==
    \E i, j \in DOMAIN crawls :
        /\ crawls[i].poet # crawls[j].poet
        /\ crawls[i].downloaded = <<"Rain">>
        /\ crawls[j].downloaded = <<"Rain">>


\* How often title t is in downloaded_poems.
Occurrences(t) ==
    Cardinality({k \in DOMAIN downloaded_poems : downloaded_poems[k] = t})

\* C17: a title is in downloaded_poems once for every task of it that
\* resolved as saved, such a task's fetch and save both succeeded, and the
\* file of a title in downloaded_poems has been written at least that often.
C17_DownloadedOnlySaved ==
    /\ \A t \in Titles :
        /\ Occurrences(t) = Cardinality({i \in TasksOf(t) : tasks[i].result = "true"})
        /\ Occurrences(t) > 0 => files[t] # NoFile
        /\ writes[t] >= Occurrences(t)
    /\ \A i \in DOMAIN tasks :
        tasks[i].result = "true" => tasks[i].fetch = "ok" /\ tasks[i].save = "ok"

\* C17's case: one task saved its title and another task's save failed.
C17_Witness ==
    /\ Len(downloaded_poems) = 1
    /\ \E i, j \in DOMAIN tasks :
        /\ tasks[i].result = "true"
        /\ tasks[j].st = "done" /\ tasks[j].save = "ioerr"

\* C18: once a later page has been requested, every title of an earlier
\* page has its task, in listing order; and while the titles of a page are
\* being submitted that page is the last one requested.
PageTasks(k) == {i \in DOMAIN tasks : tasks[i].page = k}
C18_PageDispatchedBeforeNext ==
    /\ \A k \in DOMAIN fetched :
        k < Len(fetched) =>
            /\ Cardinality(PageTasks(k)) = Len(fetched[k].items)
            /\ \A i \in PageTasks(k) :
                 \E n \in DOMAIN fetched[k].items :
                    /\ tasks[i].title = fetched[k].items[n]
                    /\ n = Cardinality({j \in PageTasks(k) : j <= i})
    /\ todo # <<>> => (pc = "submitting" /\ page_no = Len(fetched))
    /\ \A i, j \in DOMAIN tasks : i < j => tasks[i].page <= tasks[j].page

\* C18's case: page 2 has been requested after the two titles of page 1
\* were submitted.
C18_Witness ==
    /\ Len(fetched) = 2
    /\ Len(fetched[1].items) = 2
    /\ Cardinality(PageTasks(1)) = 2

\* C19: a block with k <br> elements parses to k+1 lines of text, the text
\* before the first <br> and then each <br>'s tail, an empty line where
\* there is no text; empty content and an absent block parse to no lines.
TextOrEmpty(t) == IF t = None THEN <<>> ELSE t
C19_ParsedLines ==
    dpc # "fetched" =>
        IF block.kind = "block"
        THEN /\ Len(raw) = Len(block.tails) + 1
             /\ raw[1] = TextOrEmpty(block.text)
             /\ \A i \in DOMAIN block.tails :
                    raw[i + 1] = TextOrEmpty(block.tails[i])
        ELSE raw = <<>>

\* C20: run stops only by returning, with every task resolved, and after it
\* has returned no step of the crawl is left to take.
C20_StopsOnlyWhenDone ==
    /\ pc = "done" => (~ENABLED Next /\ \A i \in DOMAIN tasks : tasks[i].st = "done")
    /\ ~ENABLED Next => pc = "done"

=============================================================================
